---- MODULE Spec2Model ----
(***************************************************************************)
(* Model of the live-poll WebSocket server (src/live-poll/server/index.js). *)
(* One process, one event loop: every "connection", "message" and "close"  *)
(* callback runs to completion, so each is one atomic action.              *)
(*                                                                         *)
(* JavaScript values are tagged records.  Strings are sequences of         *)
(* one-character strings, so that trim(), toLowerCase() and the template   *)
(* string of the ballot key are computed and not assumed.  A JSON number   *)
(* is kept as its count of halves (0.5 is 1, 1 is 2, -1 is -2), which is   *)
(* enough to tell integers from fractions.                                 *)
(***************************************************************************)
EXTENDS Integers, Sequences, FiniteSets, TLC

VARIABLES
    rooms,      \* the Map `rooms`: room id -> room object (index.js:17)
    conn,       \* per socket: "none" (not yet connected), "open", "closed"
    meta,       \* per socket: ws.meta (index.js:61)
    crashed,    \* TRUE once a handler threw: the process is gone
    seen,       \* history: per open socket and room id, the latest STATE
                \*          the socket was sent
    cast,       \* history: the <<room id, normalized name>> pairs counted
                \*          since the room's latest HOST_SET_QUESTION
    everVoted,  \* history: every <<room id, question id, normalized name>>
                \*          a VOTE with an integer optionIndex was counted for
    ops,        \* history: how many messages have succeeded so far
    joinedTo,   \* history: per socket, the room ids its successful JOINs
                \*          have named
    voters      \* history: the <<room id, socket>> pairs a player's VOTE
                \*          with an integer optionIndex was counted for
                \*          since the room's latest HOST_SET_QUESTION

vars ==
    <<rooms, conn, meta, crashed, seen, cast, everVoted, ops, joinedTo, voters>>

---------------------------------------------------------------------------
(* JavaScript values *)

Undefined == [t |-> "undefined"]
Null == [t |-> "null"]
Str(cs) == [t |-> "string", s |-> cs]
Num(h) == [t |-> "number", halves |-> h]
Arr(xs) == [t |-> "array", items |-> xs]
Question(id, text, options) ==
    [t |-> "object", id |-> id, text |-> text, options |-> options]

\* JavaScript truthiness, as `!x` reads it.
Truthy(v) ==
    CASE v.t = "undefined" -> FALSE
      [] v.t = "null" -> FALSE
      [] v.t = "string" -> v.s # <<>>
      [] v.t = "number" -> v.halves # 0
      [] OTHER -> TRUE

\* Property read q.<field> of a value that may not be an object.
Field(v, f) ==
    IF v.t = "object" /\ f \in DOMAIN v THEN v[f] ELSE Undefined

\* String literals of the program.
sJOIN == Str(<<"J", "O", "I", "N">>)
sHSQ == Str(<<"H", "O", "S", "T", "_", "S", "E", "T", "_",
             "Q", "U", "E", "S", "T", "I", "O", "N">>)
sVOTE == Str(<<"V", "O", "T", "E">>)
sPlayer == Str(<<"p", "l", "a", "y", "e", "r">>)
sHost == Str(<<"h", "o", "s", "t">>)

---------------------------------------------------------------------------
(* String.prototype.trim and toLowerCase *)

WhiteSpace == {" ", "\t", "\n"}

UpperCase == <<"A", "B", "C", "D", "E", "F", "G", "H", "I", "J", "K", "L", "M",
               "N", "O", "P", "Q", "R", "S", "T", "U", "V", "W", "X", "Y", "Z">>
LowerCase == <<"a", "b", "c", "d", "e", "f", "g", "h", "i", "j", "k", "l", "m",
               "n", "o", "p", "q", "r", "s", "t", "u", "v", "w", "x", "y", "z">>

LowerChar(c) ==
    IF \E i \in 1..Len(UpperCase) : UpperCase[i] = c
    THEN LowerCase[CHOOSE i \in 1..Len(UpperCase) : UpperCase[i] = c]
    ELSE c

toLowerCase(cs) == [i \in 1..Len(cs) |-> LowerChar(cs[i])]

RECURSIVE trimStart(_)
trimStart(cs) ==
    IF cs # <<>> /\ Head(cs) \in WhiteSpace THEN trimStart(Tail(cs)) ELSE cs

RECURSIVE trimEnd(_)
trimEnd(cs) ==
    IF cs # <<>> /\ cs[Len(cs)] \in WhiteSpace
    THEN trimEnd(SubSeq(cs, 1, Len(cs) - 1))
    ELSE cs

trim(cs) == trimEnd(trimStart(cs))

---------------------------------------------------------------------------
(* Rooms, snapshots and sending *)

\* Option count limits of a question.
MinOptions == 2
MaxOptions == 4

\* A JavaScript array of numbers: its elements, and the keys of the
\* non-index properties it has been given (each of them holds NaN).
JsArray(items) == [items |-> items, props |-> {}]

Zeros(n) == [i \in 1..n |-> 0]

NewRoom ==
    [question |-> Null, counts |-> JsArray(<<>>), total |-> 0,
     votedBy |-> {}, clients |-> <<>>]

NoRooms == [r \in {} |-> NewRoom]

\* getRoom(roomId), as the Map it leaves behind.
getRoom(rms, roomId) ==
    IF roomId \in DOMAIN rms THEN rms ELSE rms @@ (roomId :> NewRoom)

\* JSON.stringify of an array: the elements, never the other properties.
StringifyArray(a) == a.items

\* roomState read from the Map as it was when the callback started.
roomStateBefore(rms, roomId) ==
    LET room == getRoom(rooms, roomId)[roomId]
    IN  [type |-> "STATE", roomId |-> roomId, question |-> room.question,
         counts |-> StringifyArray(room.counts), total |-> room.total]

roomState(rms, roomId) ==
    LET room == getRoom(rms, roomId)[roomId]
    IN  [type |-> "STATE", roomId |-> roomId, question |-> room.question,
         counts |-> StringifyArray(room.counts), total |-> room.total]

\* The message texts are written without their accents.
errorMsg(message) == [type |-> "ERROR", message |-> message]

\* safeSend(ws, msgObj) appended to the sends `o` of the running callback.
safeSend(o, ws, msgObj) ==
    IF conn[ws] = "open" THEN Append(o, [to |-> ws, msg |-> msgObj]) ELSE o

RECURSIVE sendEach(_, _, _)
sendEach(o, clients, msgObj) ==
    IF clients = <<>> THEN o
    ELSE sendEach(safeSend(o, Head(clients), msgObj), Tail(clients), msgObj)

broadcast(rms, roomId, msgObj) ==
    sendEach(<<>>, getRoom(rms, roomId)[roomId].clients, msgObj)

\* Set.prototype.add / delete on the insertion-ordered set of sockets.
Contains(seq, x) == \E i \in 1..Len(seq) : seq[i] = x
SetAdd(seq, x) == IF Contains(seq, x) THEN seq ELSE Append(seq, x)
SetDelete(seq, x) == SelectSeq(seq, LAMBDA y : y # x)

---------------------------------------------------------------------------
(* The "message" callback (index.js:63-126) *)

\* What one run of the callback leaves: the Map, the socket's ws.meta, the
\* messages sent, and whether it ended by throwing.
Outcome(rms, m, o) == [rooms |-> rms, meta |-> m, out |-> o, threw |-> FALSE]

Thrown(ws) == [rooms |-> rooms, meta |-> meta[ws], out |-> <<>>, threw |-> TRUE]

\* return safeSend(ws, errorMsg(text))
Reject(rms, ws, text) ==
    Outcome(rms, meta[ws], safeSend(<<>>, ws, errorMsg(text)))

\* ["player", "host"].includes(role)
ValidRole(role) == role \in {sPlayer, sHost}

\* onJoin that binds ws.meta before it validates the role.
onJoinBindFirst(ws, payload) ==
    LET roomId == Field(payload, "roomId")
        name == Field(payload, "name")
        role == Field(payload, "role")
        bound == [roomId |-> roomId, name |-> name, role |-> role]
    IN  IF ~Truthy(roomId) \/ ~Truthy(name) \/ ~Truthy(role)
        THEN Reject(rooms, ws, "JOIN incompleto.")
        ELSE IF ~ValidRole(role)
        THEN Outcome(rooms, bound,
                     safeSend(<<>>, ws, errorMsg("Rol invalido.")))
        ELSE LET created == getRoom(rooms, roomId)
                 joined == [created EXCEPT ![roomId].clients = SetAdd(@, ws)]
             IN  Outcome(joined, bound,
                         safeSend(<<>>, ws, roomState(joined, roomId)))

\* onJoin that adds the socket to the room before it validates the role.
onJoinAddFirst(ws, payload) ==
    LET roomId == Field(payload, "roomId")
        name == Field(payload, "name")
        role == Field(payload, "role")
    IN  IF ~Truthy(roomId) \/ ~Truthy(name) \/ ~Truthy(role)
        THEN Reject(rooms, ws, "JOIN incompleto.")
        ELSE LET created == getRoom(rooms, roomId)
                 joined == [created EXCEPT ![roomId].clients = SetAdd(@, ws)]
             IN  IF ~ValidRole(role)
                 THEN Reject(joined, ws, "Rol invalido.")
                 ELSE Outcome(joined,
                              [roomId |-> roomId, name |-> name, role |-> role],
                              safeSend(<<>>, ws, roomState(joined, roomId)))

\* onJoin that keeps the identity of a socket that has joined before.
onJoinOnce(ws, payload) ==
    LET roomId == Field(payload, "roomId")
        name == Field(payload, "name")
        role == Field(payload, "role")
    IN  IF ~Truthy(roomId) \/ ~Truthy(name) \/ ~Truthy(role)
        THEN Reject(rooms, ws, "JOIN incompleto.")
        ELSE IF ~ValidRole(role)
        THEN Reject(rooms, ws, "Rol invalido.")
        ELSE LET created == getRoom(rooms, roomId)
                 joined == [created EXCEPT ![roomId].clients = SetAdd(@, ws)]
             IN  Outcome(joined,
                         IF Truthy(meta[ws].roomId) THEN meta[ws]
                         ELSE [roomId |-> roomId, name |-> name, role |-> role],
                         safeSend(<<>>, ws, roomState(joined, roomId)))

\* onJoin that announces the join to the whole room.
onJoinBroadcast(ws, payload) ==
    LET roomId == Field(payload, "roomId")
        name == Field(payload, "name")
        role == Field(payload, "role")
    IN  IF ~Truthy(roomId) \/ ~Truthy(name) \/ ~Truthy(role)
        THEN Reject(rooms, ws, "JOIN incompleto.")
        ELSE IF ~ValidRole(role)
        THEN Reject(rooms, ws, "Rol invalido.")
        ELSE LET created == getRoom(rooms, roomId)
                 joined == [created EXCEPT ![roomId].clients = SetAdd(@, ws)]
             IN  Outcome(joined,
                         [roomId |-> roomId, name |-> name, role |-> role],
                         broadcast(joined, roomId, roomState(joined, roomId)))

onJoin(ws, payload) ==
    LET roomId == Field(payload, "roomId")
        name == Field(payload, "name")
        role == Field(payload, "role")
    IN  IF ~Truthy(roomId) \/ ~Truthy(name) \/ ~Truthy(role)
        THEN Reject(rooms, ws, "JOIN incompleto.")
        ELSE IF ~ValidRole(role)
        THEN Reject(rooms, ws, "Rol invalido.")
        ELSE LET created == getRoom(rooms, roomId)
                 joined == [created EXCEPT ![roomId].clients = SetAdd(@, ws)]
             IN  Outcome(joined,
                         [roomId |-> roomId, name |-> name, role |-> role],
                         safeSend(<<>>, ws, roomState(joined, roomId)))

\* !q || !q.id || !q.text || !Array.isArray(q.options)
MalformedQuestion(q) ==
    \/ ~Truthy(q)
    \/ ~Truthy(Field(q, "id"))
    \/ ~Truthy(Field(q, "text"))
    \/ Field(q, "options").t # "array"

\* q.options.length < 2 || q.options.length > 4
BadOptionCount(q) ==
    \/ Len(q.options.items) < MinOptions
    \/ Len(q.options.items) > MaxOptions

\* setQuestion without the reset of votedBy.
setQuestionKeepBallots(room, q) ==
    [room EXCEPT
        !.question = Question(q.id, q.text, q.options),
        !.counts = JsArray(Zeros(Len(q.options.items))),
        !.total = 0]

\* index.js:99-102
setQuestion(room, q) ==
    [room EXCEPT
        !.question = Question(q.id, q.text, q.options),
        !.counts = JsArray(Zeros(Len(q.options.items))),
        !.total = 0,
        !.votedBy = {}]

\* MayAsk that only asks for some role.
MayAskWithAnyRole(ws) == Truthy(meta[ws].role)

\* ws.meta.role !== "host", negated
MayAsk(ws) == meta[ws].role = sHost

\* onSetQuestion that sets the question in every room.
onSetQuestionEverywhere(rms, ws, payload) ==
    LET roomId == meta[ws].roomId
        q == Field(payload, "question")
    IN  IF ~MayAsk(ws)
        THEN Reject(rms, ws, "Solo host puede crear preguntas.")
        ELSE IF MalformedQuestion(q)
        THEN Reject(rms, ws, "Pregunta invalida.")
        ELSE IF BadOptionCount(q)
        THEN Reject(rms, ws, "Opciones deben ser 2 a 4.")
        ELSE LET asked == [r \in DOMAIN rms |-> setQuestion(rms[r], q)]
             IN  Outcome(asked, meta[ws],
                         broadcast(asked, roomId, roomState(asked, roomId)))

onSetQuestion(rms, ws, payload) ==
    LET roomId == meta[ws].roomId
        q == Field(payload, "question")
    IN  IF ~MayAsk(ws)
        THEN Reject(rms, ws, "Solo host puede crear preguntas.")
        ELSE IF MalformedQuestion(q)
        THEN Reject(rms, ws, "Pregunta invalida.")
        ELSE IF BadOptionCount(q)
        THEN Reject(rms, ws, "Opciones deben ser 2 a 4.")
        ELSE LET asked == [rms EXCEPT ![roomId] = setQuestion(@, q)]
             IN  Outcome(asked, meta[ws],
                         broadcast(asked, roomId, roomState(asked, roomId)))

\* IdMismatch with the check left out.
IdMismatchUnchecked(questionId, question) == FALSE

\* questionId !== room.question.id
IdMismatch(questionId, question) == questionId # question.id

\* optionIndex < 0 || optionIndex >= room.counts.length
OutOfRange(optionIndex, counts) ==
    \/ optionIndex.halves < 0
    \/ optionIndex.halves >= 2 * Len(counts.items)

\* BallotKey with the name as it was typed.
BallotKeyAsTyped(roomId, questionId, name) ==
    roomId.s \o <<":">> \o questionId.s \o <<":">> \o name.s

\* `${roomId}:${room.question.id}:${name.trim().toLowerCase()}`
BallotKey(roomId, questionId, name) ==
    roomId.s \o <<":">> \o questionId.s \o <<":">> \o toLowerCase(trim(name.s))

\* room.votedBy.has(key)
AlreadyVoted(room, key) == key \in room.votedBy

\* counts[optionIndex] += 1, for a number that passed the range check: an
\* integer is an index of the array; any other number names a property
\* that does not exist, and undefined + 1 is NaN.
Increment(counts, optionIndex) ==
    IF optionIndex.halves % 2 = 0
    THEN [counts EXCEPT !.items[optionIndex.halves \div 2 + 1] = @ + 1]
    ELSE [counts EXCEPT !.props = @ \cup {optionIndex.halves}]

\* index.js:118-120
castVote(room, key, optionIndex) ==
    [room EXCEPT
        !.votedBy = @ \cup {key},
        !.counts = Increment(@, optionIndex),
        !.total = @ + 1]

onVote(rms, ws, payload) ==
    LET roomId == meta[ws].roomId
        room == rms[roomId]
        questionId == Field(payload, "questionId")
        optionIndex == Field(payload, "optionIndex")
        name == Field(payload, "name")
    IN  IF ~Truthy(room.question)
        THEN Reject(rms, ws, "No hay pregunta activa.")
        ELSE IF IdMismatch(questionId, room.question)
        THEN Reject(rms, ws, "QuestionId no coincide.")
        ELSE IF optionIndex.t # "number"
        THEN Reject(rms, ws, "optionIndex invalido.")
        ELSE IF OutOfRange(optionIndex, room.counts)
        THEN Reject(rms, ws, "Opcion fuera de rango.")
        ELSE IF ~Truthy(name)
        THEN Reject(rms, ws, "Nombre requerido para votar.")
        ELSE IF name.t # "string"
        THEN Thrown(ws)   \* name.trim is not a function
        ELSE LET key == BallotKey(roomId, room.question.id, name)
             IN  IF AlreadyVoted(room, key)
                 THEN Reject(rms, ws, "Ya votaste en esta pregunta.")
                 ELSE LET voted ==
                              [rms EXCEPT
                                  ![roomId] = castVote(@, key, optionIndex)]
                      IN  Outcome(voted, meta[ws],
                                  broadcast(voted, roomId,
                                            roomState(voted, roomId)))

\* NotJoined that reads ws.meta, which is always there.
NotJoinedByMeta(ws) == ~Truthy([t |-> "object"])

\* if (!ws.meta.roomId)
NotJoined(ws) == ~Truthy(meta[ws].roomId)

onMessage(ws, raw) ==
    IF ~raw.json
    THEN Reject(rooms, ws, "Mensaje no es JSON valido.")
    ELSE LET type == Field(raw.value, "type")
             payload == Field(raw.value, "payload")
         IN  IF ~Truthy(type) \/ ~Truthy(payload)
             THEN Reject(rooms, ws, "Formato invalido.")
             ELSE IF type = sJOIN
             THEN onJoin(ws, payload)
             ELSE IF NotJoined(ws)
             THEN Reject(rooms, ws, "Debes hacer JOIN primero.")
             ELSE LET rms == getRoom(rooms, meta[ws].roomId)
                  IN  IF type = sHSQ THEN onSetQuestion(rms, ws, payload)
                      ELSE IF type = sVOTE THEN onVote(rms, ws, payload)
                      ELSE Reject(rms, ws, "Tipo de mensaje no soportado.")

\* onClose that leaves the members as they are.
onCloseKeepMember(ws) == rooms

\* The "close" callback (index.js:128-133), as the Map it leaves behind.
onClose(ws) ==
    LET roomId == meta[ws].roomId
    IN  IF ~Truthy(roomId) THEN rooms
        ELSE [getRoom(rooms, roomId) EXCEPT
                 ![roomId].clients = SetDelete(@, ws)]

---------------------------------------------------------------------------
(* Inputs: the sockets and the messages clients send *)

Sockets == {1, 2}

\* The runs explored hold at most this many successful messages (JOIN,
\* HOST_SET_QUESTION and VOTE together); rejected ones are not limited.
MaxOps == 5

R1 == Str(<<"r", "1">>)
R2 == Str(<<"r", "2">>)
RoomIds == {R1, R2}

q1 == Str(<<"q", "1">>)
q2 == Str(<<"q", "2">>)

Label(c) == Str(<<c>>)
Options(n) == Arr([i \in 1..n |-> Label("o")])

Q1 == Question(q1, Label("x"), Options(MinOptions))
Q2 == Question(q2, Label("y"), Options(MaxOptions))
GoodQuestions == {Q1, Q2}
BadQuestions ==
    { [t |-> "object", text |-> Label("x"), options |-> Options(2)],
      Question(q1, Str(<<>>), Options(2)),
      Question(q1, Label("x"), Label("o")),
      Label("x"),
      Question(q1, Label("x"), Options(MinOptions - 1)),
      Question(q1, Label("x"), Options(MaxOptions + 1)) }

Al == Str(<<"A", "l">>)
aL == Str(<<" ", "a", "L", "\t">>)
Bo == Str(<<"b", "o">>)
VoterNames == {Al, aL, Bo}

Json(v) == [json |-> TRUE, value |-> v]
Msg(type, payload) == Json([t |-> "object", type |-> type, payload |-> payload])

JoinMsg(roomId, name, role) ==
    Msg(sJOIN, [t |-> "object", roomId |-> roomId, name |-> name, role |-> role])
AskMsg(q) == Msg(sHSQ, [t |-> "object", question |-> q])
VoteMsg(questionId, optionIndex, name) ==
    Msg(sVOTE, [t |-> "object", questionId |-> questionId,
                optionIndex |-> optionIndex, name |-> name])

GoodJoins == {JoinMsg(r, Al, role) : r \in RoomIds, role \in {sHost, sPlayer}}
BadJoins ==
    { Msg(sJOIN, [t |-> "object", name |-> Al, role |-> sHost]),
      Msg(sJOIN, [t |-> "object", roomId |-> R2, role |-> sHost]),
      Msg(sJOIN, [t |-> "object", roomId |-> R2, name |-> Al]),
      JoinMsg(R2, Str(<<>>), sHost),
      JoinMsg(R2, Al, Str(<<"a", "d", "m", "i", "n">>)),
      Msg(sJOIN, Label("x")) }
JoinMsgs == GoodJoins \cup BadJoins

AskMsgs ==
    {AskMsg(q) : q \in GoodQuestions \cup BadQuestions}
        \cup {Msg(sHSQ, [t |-> "object", name |-> Al])}

\* Option indices: -1, 0.5, 1, 4 (as halves), a string, and none.
NumberIndices == {Num(h) : h \in {-2, 1, 2, 8}}
InRangeIndices == {Num(1), Num(2)}
VoteMsgs ==
    {VoteMsg(q, i, n) : q \in {q1, q2}, i \in InRangeIndices, n \in VoterNames}
        \cup {VoteMsg(q, i, Al) : q \in {q1, q2}, i \in NumberIndices}
        \cup {VoteMsg(q1, Label("1"), Al),
              Msg(sVOTE, [t |-> "object", questionId |-> q1, name |-> Al]),
              Msg(sVOTE, [t |-> "object", questionId |-> q1,
                          optionIndex |-> Num(0)]),
              VoteMsg(q1, Num(0), Str(<<>>)),
              VoteMsg(q1, Num(0), Num(14)),
              VoteMsg(q2, Num(0), Num(14))}

OtherMsgs ==
    { [json |-> FALSE],
      Json(Null),
      Json(Num(2)),
      Json([t |-> "object", payload |-> [t |-> "object", name |-> Al]]),
      Json([t |-> "object", type |-> sVOTE]),
      Msg(Str(<<"P", "I", "N", "G">>), [t |-> "object", name |-> Al]) }

-------------------------------------------------------------------------------------------------------------------------------------------------
(* History *)

\* The normalized form of a voter's name: trimmed and lower-cased.
Normalized(name) == toLowerCase(trim(name.s))

IsState(o) == \E i \in 1..Len(o) : o[i].msg.type = "STATE"

\* The latest STATE of each room that socket s has been sent.
RECURSIVE Delivered(_, _, _)
Delivered(old, s, o) ==
    IF o = <<>> THEN old
    ELSE LET e == Head(o)
             now == IF e.to = s /\ e.msg.type = "STATE"
                    THEN [r \in DOMAIN old \cup {e.msg.roomId} |->
                            IF r = e.msg.roomId THEN e.msg ELSE old[r]]
                    ELSE old
         IN  Delivered(now, s, Tail(o))

NoMeta == [roomId |-> Null, name |-> Null, role |-> Null]

TypeOf(raw) == IF raw.json THEN Field(raw.value, "type") ELSE Undefined
PayloadOf(raw) == IF raw.json THEN Field(raw.value, "payload") ELSE Undefined

\* A message succeeded when its run sent a STATE rather than an ERROR.
Succeeds(ws, raw) ==
    LET res == onMessage(ws, raw) IN ~res.threw /\ IsState(res.out)
Counted(ws, raw) == TypeOf(raw) = sVOTE /\ Succeeds(ws, raw)
Asked(ws, raw) == TypeOf(raw) = sHSQ /\ Succeeds(ws, raw)
Joined(ws, raw) == TypeOf(raw) = sJOIN /\ Succeeds(ws, raw)

Triple(ws, raw) ==
    <<meta[ws].roomId, PayloadOf(raw).questionId,
      Normalized(PayloadOf(raw).name)>>
IsInteger(n) == n.t = "number" /\ n.halves % 2 = 0

---------------------------------------------------------------------------
(* Actions *)

Init ==
    /\ rooms = NoRooms
    /\ conn = [s \in Sockets |-> "none"]
    /\ meta = [s \in Sockets |-> NoMeta]
    /\ crashed = FALSE
    /\ seen = [s \in Sockets |-> NoRooms]
    /\ cast = {}
    /\ everVoted = {}
    /\ ops = 0
    /\ joinedTo = [s \in Sockets |-> {}]
    /\ voters = {}

\* wss.on("connection"): ws.meta = { roomId: null, name: null, role: null }
Connect(ws) ==
    /\ ~crashed
    /\ conn[ws] = "none"
    /\ conn' = [conn EXCEPT ![ws] = "open"]
    /\ meta' = [meta EXCEPT ![ws] = NoMeta]
    /\ UNCHANGED <<rooms, crashed, seen, cast, everVoted, ops, joinedTo, voters>>

\* ws.on("message"): one whole run of the callback on one inbound text.
Message(ws, raw) ==
    /\ ~crashed
    /\ conn[ws] = "open"
    /\ LET res == onMessage(ws, raw)
           roomId == meta[ws].roomId
           succeeds == IsState(res.out)
           asked == succeeds /\ TypeOf(raw) = sHSQ
           counted == succeeds /\ TypeOf(raw) = sVOTE
       IN  IF res.threw
           THEN /\ crashed' = TRUE
                /\ UNCHANGED <<rooms, conn, meta, seen, cast, everVoted, ops,
                                joinedTo, voters>>
           ELSE /\ succeeds => ops < MaxOps
                /\ ops' = IF succeeds THEN ops + 1 ELSE ops
                /\ rooms' = res.rooms
                /\ meta' = [meta EXCEPT ![ws] = res.meta]
                /\ seen' = [s \in Sockets |-> Delivered(seen[s], s, res.out)]
                /\ cast' =
                     IF asked THEN {c \in cast : c[1] # roomId}
                     ELSE IF counted
                     THEN cast \cup {<<roomId, Normalized(PayloadOf(raw).name)>>}
                     ELSE cast
                /\ everVoted' =
                     IF counted /\ IsInteger(PayloadOf(raw).optionIndex)
                     THEN everVoted \cup {Triple(ws, raw)}
                     ELSE everVoted
                /\ joinedTo' =
                     IF succeeds /\ TypeOf(raw) = sJOIN
                     THEN [joinedTo EXCEPT ![ws] = @ \cup {PayloadOf(raw).roomId}]
                     ELSE joinedTo
                /\ voters' =
                     IF asked THEN {v \in voters : v[1] # roomId}
                     ELSE IF /\ counted
                             /\ IsInteger(PayloadOf(raw).optionIndex)
                             /\ meta[ws].role = sPlayer
                     THEN voters \cup {<<roomId, ws>>}
                     ELSE voters
                /\ UNCHANGED <<conn, crashed>>

\* ws.on("close")
Close(ws) ==
    /\ ~crashed
    /\ conn[ws] = "open"
    /\ conn' = [conn EXCEPT ![ws] = "closed"]
    /\ rooms' = onClose(ws)
    /\ seen' = [seen EXCEPT ![ws] = NoRooms]
    /\ UNCHANGED <<meta, crashed, cast, everVoted, ops, joinedTo, voters>>

Next ==
    \/ \E ws \in Sockets : Connect(ws)
    \/ \E ws \in Sockets, raw \in JoinMsgs : Message(ws, raw)
    \/ \E ws \in Sockets, raw \in AskMsgs : Message(ws, raw)
    \/ \E ws \in Sockets, raw \in VoteMsgs : Message(ws, raw)
    \/ \E ws \in Sockets, raw \in OtherMsgs : Message(ws, raw)
    \/ \E ws \in Sockets : Close(ws)

Spec == Init /\ [][Next]_vars

---------------------------------------------------------------------------
(* Vocabulary of the properties *)

AllMsgs == JoinMsgs \cup AskMsgs \cup VoteMsgs \cup OtherMsgs

\* The callback can run on socket ws: the process lives and ws is open.
Active(ws) == ~crashed /\ conn[ws] = "open"

RoomOf(ws) == meta[ws].roomId

ErrorTo(ws, text) == <<[to |-> ws, msg |-> errorMsg(text)]>>

\* The run answers ws with exactly this one ERROR, sends nothing else, and
\* leaves every room, the set of rooms and ws.meta as they were.
RejectedWith(ws, raw, text) ==
    LET res == onMessage(ws, raw)
    IN  /\ ~res.threw
        /\ res.out = ErrorTo(ws, text)
        /\ res.rooms = rooms
        /\ res.meta = meta[ws]

DuplicateVote == "Ya votaste en esta pregunta."
Forbidden == "Solo host puede crear preguntas."
NotJoinedError == "Debes hacer JOIN primero."
QuestionMismatch == "QuestionId no coincide."
InvalidOption == {"optionIndex invalido.", "Opcion fuera de rango."}

RECURSIVE Sum(_)
Sum(seq) == IF seq = <<>> THEN 0 ELSE Head(seq) + Sum(Tail(seq))

\* A VOTE that names the active question of the sender's room.
NamesActiveQuestion(ws, raw) ==
    /\ RoomOf(ws) \in DOMAIN rooms
    /\ rooms[RoomOf(ws)].question # Null
    /\ Field(PayloadOf(raw), "questionId") = rooms[RoomOf(ws)].question.id

\* optionIndex is a JSON number n with 0 <= n < len(counts), integer or not.
NumberInRange(ws, raw) ==
    LET i == Field(PayloadOf(raw), "optionIndex")
    IN  /\ i.t = "number"
        /\ 0 <= i.halves
        /\ i.halves < 2 * Len(rooms[RoomOf(ws)].counts.items)

\* optionIndex is an integer in [0, len(counts)).
IntegerInRange(ws, raw) ==
    NumberInRange(ws, raw) /\ Field(PayloadOf(raw), "optionIndex").halves % 2 = 0

HasStringName(raw) == Field(PayloadOf(raw), "name").t = "string"

---------------------------------------------------------------------------
(* C1 *)

\* C1, as claimed: for every room, question id and normalized name, at most
\* one VOTE is ever counted, also across questions that reuse an id: the
\* server never counts a VOTE whose triple it has counted before.  (Stated
\* for votes with an integer optionIndex, earlier and now, which is all it
\* takes.)
C1_OneVotePerQuestionId ==
    \A ws \in Sockets, raw \in VoteMsgs :
        Active(ws) /\ Counted(ws, raw) /\ IntegerInRange(ws, raw)
        => Triple(ws, raw) \notin everVoted

\* C1, amended: between two successful HOST_SET_QUESTION of a room at most
\* one VOTE is counted per normalized name.  A VOTE whose name normalizes to
\* one already counted for the room's current question is never counted, and
\* it is answered DuplicateVote whenever it names the active question with
\* an optionIndex that is a number in [0, len(counts)); every counted vote
\* of the current question is a distinct normalized name.
C1_OneVotePerQuestionInstance ==
    /\ \A ws \in Sockets, raw \in VoteMsgs :
           ( /\ Active(ws)
             /\ HasStringName(raw)
             /\ <<RoomOf(ws), Normalized(PayloadOf(raw).name)>> \in cast )
           => /\ ~Counted(ws, raw)
              /\ NamesActiveQuestion(ws, raw) /\ NumberInRange(ws, raw)
                 => RejectedWith(ws, raw, DuplicateVote)
    /\ \A r \in DOMAIN rooms :
           Cardinality({c \in cast : c[1] = r}) = rooms[r].total

\* A counted name is refused under two other spellings and option indices.
C1_Witness ==
    \E ws \in Sockets :
        /\ Active(ws)
        /\ <<RoomOf(ws), Normalized(Al)>> \in cast
        /\ rooms[RoomOf(ws)].counts.items = <<0, 1>>
        /\ RejectedWith(ws, VoteMsg(q1, Num(1), aL), DuplicateVote)
        /\ RejectedWith(ws, VoteMsg(q1, Num(2), Al), DuplicateVote)

---------------------------------------------------------------------------
(* C2 *)

\* C2: in every reachable state and for every room, total equals the sum of
\* the counts array as the STATE snapshot shows it.
C2_TotalIsSumOfCounts ==
    \A r \in DOMAIN rooms :
        rooms[r].total = Sum(roomState(rooms, r).counts)

---------------------------------------------------------------------------
(* C3 *)

\* C3: a HOST_SET_QUESTION from a host with a well-formed question of n
\* options, 2 <= n <= 4, succeeds whatever the room holds, and leaves the
\* room with that question, n zero counts, total 0 and no ballots; in a room
\* without ballots every name can vote on the active question.
C3_SetQuestionResets ==
    /\ \A ws \in Sockets, q \in GoodQuestions :
           Active(ws) /\ meta[ws].role = sHost => Asked(ws, AskMsg(q))
    /\ \A ws \in Sockets, raw \in AskMsgs :
           Active(ws) /\ Asked(ws, raw)
           => LET q == PayloadOf(raw).question
                  n == Len(q.options.items)
                  room == onMessage(ws, raw).rooms[RoomOf(ws)]
              IN  /\ n \in 2..4
                  /\ room.question = Question(q.id, q.text, q.options)
                  /\ room.counts = JsArray(Zeros(n))
                  /\ room.total = 0
                  /\ room.votedBy = {}
    /\ \A ws \in Sockets, raw \in VoteMsgs :
           ( /\ Active(ws)
             /\ NamesActiveQuestion(ws, raw)
             /\ IntegerInRange(ws, raw)
             /\ HasStringName(raw) /\ Truthy(PayloadOf(raw).name)
             /\ rooms[RoomOf(ws)].votedBy = {} )
           => Counted(ws, raw)

\* A name counted on question q1 of a room was counted again on the
\* question q2 that replaced it.
C3_Witness ==
    \E r \in DOMAIN rooms :
        /\ rooms[r].question = Q2
        /\ rooms[r].total = 1
        /\ <<r, q1, Normalized(Al)>> \in everVoted
        /\ <<r, q2, Normalized(Al)>> \in everVoted

---------------------------------------------------------------------------
(* C4 *)

\* A player's HOST_SET_QUESTION is answered Forbidden and changes nothing.
PlayerIsForbidden ==
    \A ws \in Sockets, raw \in AskMsgs :
        Active(ws) /\ meta[ws].role = sPlayer
        => RejectedWith(ws, raw, Forbidden)

\* A step that changes the question of a room is the run of a
\* HOST_SET_QUESTION sent by a socket whose role is host and whose room is
\* that room.
QuestionChangesByHostOnly ==
    \A r \in DOMAIN rooms :
        rooms'[r].question # rooms[r].question
        => \E ws \in Sockets, raw \in AskMsgs :
               /\ Active(ws)
               /\ meta[ws].role = sHost
               /\ RoomOf(ws) = r
               /\ Asked(ws, raw)
               /\ rooms' = onMessage(ws, raw).rooms

\* C4: a room's question changes only by a HOST_SET_QUESTION of a host of
\* that room; a player's HOST_SET_QUESTION yields ERROR (Forbidden) to the
\* sender only and leaves the room unchanged.
C4_OnlyHostSetsQuestion ==
    [](PlayerIsForbidden) /\ [][QuestionChangesByHostOnly]_vars

\* A player is in a room whose host has set a question.
C4_Witness ==
    \E ws \in Sockets :
        /\ Active(ws)
        /\ meta[ws].role = sPlayer
        /\ rooms[RoomOf(ws)].question = Q1
        /\ RejectedWith(ws, AskMsg(Q2), Forbidden)

---------------------------------------------------------------------------
(* C5 *)

\* type and payload are both present.
WellFormed(raw) ==
    raw.json /\ Truthy(TypeOf(raw)) /\ Truthy(PayloadOf(raw))

\* C5: a socket that has not joined holds ws.meta as the connection left
\* it and is a member of no room, and every well-formed message other than
\* JOIN it sends is answered NotJoined, to it alone, with no room created or
\* changed.
C5_UnjoinedChangesNothing ==
    \A ws \in Sockets :
        meta[ws].roomId = Null
        => /\ meta[ws] = NoMeta
           /\ \A r \in DOMAIN rooms : ~Contains(rooms[r].clients, ws)
           /\ \A raw \in AskMsgs \cup VoteMsgs \cup OtherMsgs :
                  Active(ws) /\ WellFormed(raw)
                  => RejectedWith(ws, raw, NotJoinedError)

\* An unjoined socket is open while a room has a question with a vote.
C5_Witness ==
    \E ws \in Sockets, r \in DOMAIN rooms :
        /\ Active(ws)
        /\ meta[ws] = NoMeta
        /\ rooms[r].total = 1
        /\ RejectedWith(ws, VoteMsg(rooms[r].question.id, Num(2), Bo),
                        NotJoinedError)
        /\ RejectedWith(ws, AskMsg(Q2), NotJoinedError)

---------------------------------------------------------------------------
(* C6 *)

\* The run `res` is a rejection: exactly one message, an ERROR, to the sender;
\* every room, the set of rooms and the sender's ws.meta stay as they were
\* (no run touches the ws.meta of another socket).
CleanRejection(ws, res) ==
    /\ ~res.threw
    /\ Len(res.out) = 1
    /\ res.out[1].to = ws
    /\ res.out[1].msg.type = "ERROR"
    /\ res.rooms = rooms
    /\ res.meta = meta[ws]

\* JOIN with roomId, name or role missing, or a role that is not one.
InvalidJoin(raw) ==
    LET p == PayloadOf(raw)
    IN  /\ TypeOf(raw) = sJOIN
        /\ \/ ~Truthy(Field(p, "roomId"))
           \/ ~Truthy(Field(p, "name"))
           \/ ~Truthy(Field(p, "role"))
           \/ Field(p, "role") \notin {sHost, sPlayer}

UnknownType(raw) == TypeOf(raw) \notin {sJOIN, sHSQ, sVOTE}

\* HOST_SET_QUESTION whose question lacks id or text, has no options array
\* or has fewer than 2 or more than 4 options.
InvalidQuestion(raw) ==
    LET q == Field(PayloadOf(raw), "question")
    IN  /\ TypeOf(raw) = sHSQ
        /\ \/ q.t # "object"
           \/ ~Truthy(Field(q, "id"))
           \/ ~Truthy(Field(q, "text"))
           \/ Field(q, "options").t # "array"
           \/ Len(Field(q, "options").items) \notin 2..4

\* VOTE that fails a validation of the handler: no active question, another
\* question's id, an optionIndex that is no number or lies outside
\* [0, len(counts)), no name, or a name already counted for the question.
FailedVote(ws, raw) ==
    LET p == PayloadOf(raw)
    IN  /\ TypeOf(raw) = sVOTE
        /\ RoomOf(ws) \in DOMAIN rooms
        /\ \/ ~NamesActiveQuestion(ws, raw)
           \/ ~NumberInRange(ws, raw)
           \/ ~Truthy(Field(p, "name"))
           \/ /\ HasStringName(raw)
              /\ <<RoomOf(ws), Normalized(p.name)>> \in cast

\* The rejections the claim lists.
Listed(ws, raw) ==
    \/ ~WellFormed(raw)
    \/ WellFormed(raw) /\ InvalidJoin(raw)
    \/ WellFormed(raw) /\ UnknownType(raw)
    \/ WellFormed(raw) /\ RoomOf(ws) \in DOMAIN rooms /\ InvalidQuestion(raw)
    \/ WellFormed(raw) /\ FailedVote(ws, raw)

\* C6: every rejected message (not JSON, type or payload missing, unknown
\* type, invalid JOIN, invalid question, failed VOTE validation, and any
\* other run that ends without a STATE) yields exactly one ERROR, to the
\* sender only, no STATE, and changes no room, no membership, no set of
\* rooms and no socket's identity, also when the sender has joined before.
C6_RejectionChangesNothing ==
    \A ws \in Sockets, raw \in AllMsgs :
        Active(ws)
        => LET res == onMessage(ws, raw)
           IN  /\ Listed(ws, raw) => CleanRejection(ws, res)
               /\ ~res.threw /\ ~IsState(res.out) => CleanRejection(ws, res)

\* A socket that has joined as host, in a room with a counted vote, has its
\* invalid JOIN, invalid question and repeated VOTE rejected.
C6_Witness ==
    \E ws \in Sockets :
        /\ Active(ws)
        /\ meta[ws] = [roomId |-> R1, name |-> Al, role |-> sHost]
        /\ rooms[R1].counts.items = <<0, 1>>
        /\ <<R1, Normalized(Al)>> \in cast
        /\ RejectedWith(ws, JoinMsg(R2, Al, Str(<<"a", "d", "m", "i", "n">>)),
                        "Rol invalido.")
        /\ RejectedWith(ws, AskMsg(Question(q1, Label("x"), Options(5))),
                        "Opciones deben ser 2 a 4.")
        /\ RejectedWith(ws, VoteMsg(q1, Num(2), aL), DuplicateVote)
        /\ RejectedWith(ws, [json |-> FALSE], "Mensaje no es JSON valido.")

---------------------------------------------------------------------------
(* C7 *)

\* C7: a VOTE on the active question whose optionIndex is not an integer in
\* [0, len(counts)) is answered InvalidOption and changes nothing.
C7_NonIntegerIndexRejected ==
    \A ws \in Sockets, raw \in VoteMsgs :
        Active(ws) /\ NamesActiveQuestion(ws, raw) /\ ~IntegerInRange(ws, raw)
        => \E text \in InvalidOption : RejectedWith(ws, raw, text)

---------------------------------------------------------------------------
(* C8 *)

\* C8: while a room has an active question, a VOTE that carries another
\* question id (the replaced question's, for one) is answered
\* QuestionMismatch and changes nothing; a VOTE is counted only when the
\* room has an active question whose id equals the vote's questionId.
C8_StaleQuestionIdRejected ==
    \A ws \in Sockets, raw \in VoteMsgs :
        Active(ws)
        => /\ ( /\ RoomOf(ws) \in DOMAIN rooms
                /\ rooms[RoomOf(ws)].question # Null
                /\ Field(PayloadOf(raw), "questionId")
                       # rooms[RoomOf(ws)].question.id )
              => RejectedWith(ws, raw, QuestionMismatch)
           /\ Counted(ws, raw) => NamesActiveQuestion(ws, raw)

\* Question q1, which had a counted vote, was replaced by q2, and a vote
\* for q1 by a name not counted on q2 is refused.
C8_Witness ==
    \E ws \in Sockets :
        /\ Active(ws)
        /\ RoomOf(ws) \in DOMAIN rooms
        /\ rooms[RoomOf(ws)].question = Q2
        /\ \E b \in everVoted : b[1] = RoomOf(ws) /\ b[2] = q1
        /\ rooms[RoomOf(ws)].votedBy = {}
        /\ RejectedWith(ws, VoteMsg(q1, Num(2), Bo), QuestionMismatch)

---------------------------------------------------------------------------
(* C9 *)

\* The snapshot of a room object: what a STATE for it carries.
Snapshot(room, roomId) ==
    [type |-> "STATE", roomId |-> roomId, question |-> room.question,
     counts |-> room.counts.items, total |-> room.total]

OpenMembers(room) ==
    {room.clients[i] : i \in {j \in 1..Len(room.clients) :
                                  conn[room.clients[j]] = "open"}}

\* A successful HOST_SET_QUESTION or VOTE sends one STATE to each open
\* member of the sender's room and to nobody else, and every one of them
\* is the snapshot of the room as the run leaves it.
BroadcastAfterUpdate ==
    \A ws \in Sockets, raw \in AskMsgs \cup VoteMsgs :
        Active(ws)
        => LET res == onMessage(ws, raw)
               room == res.rooms[RoomOf(ws)]
           IN  ~res.threw /\ IsState(res.out)
               =>
               /\ \A i \in 1..Len(res.out) :
                      res.out[i].msg = Snapshot(room, RoomOf(ws))
               /\ {res.out[i].to : i \in 1..Len(res.out)} = OpenMembers(room)
               /\ Len(res.out) = Cardinality(OpenMembers(room))
               /\ ws \in OpenMembers(room)

\* The latest STATE of room r that an open member of r has been sent is
\* the snapshot of r as it is now.
MembersAreUpToDate ==
    \A r \in DOMAIN rooms :
        \A s \in OpenMembers(rooms[r]) :
            r \in DOMAIN seen[s] /\ seen[s][r] = Snapshot(rooms[r], r)

\* C9: after every successful HOST_SET_QUESTION or VOTE a STATE with the
\* room's state right after it goes to every open member of the room, so
\* the latest STATE an open member holds for a room is always the room's
\* current snapshot (each callback runs as one step).
C9_BroadcastIsCurrent == BroadcastAfterUpdate /\ MembersAreUpToDate

\* Two open members of a room both hold its snapshot after a question and
\* a vote.
C9_Witness ==
    \E r \in DOMAIN rooms :
        /\ ~crashed
        /\ OpenMembers(rooms[r]) = Sockets
        /\ rooms[r].question = Q1
        /\ rooms[r].counts.items = <<0, 1>>
        /\ \A s \in Sockets : seen[s][r].total = 1

---------------------------------------------------------------------------
(* C10 *)

\* JOIN with roomId and name present and a role that is host or player.
ValidJoin(raw) ==
    /\ WellFormed(raw)
    /\ TypeOf(raw) = sJOIN
    /\ ~InvalidJoin(raw)

\* A room nobody has referred to yet.
Untouched ==
    [question |-> Null, counts |-> [items |-> <<>>, props |-> {}],
     total |-> 0, votedBy |-> {}, clients |-> <<>>]

\* C10: a successful JOIN binds ws.meta to the roomId, name and role given,
\* makes the socket a member of that room, sends the room's snapshot to the
\* joining socket and to nobody else, and leaves the room's question,
\* counts, total and votedBy, its other members and every other room as
\* they were; a room that did not exist starts with question null, no
\* counts and total 0.
C10_JoinBindsAndReports ==
    \A ws \in Sockets, raw \in JoinMsgs :
        Active(ws) /\ ValidJoin(raw)
        => LET res == onMessage(ws, raw)
               p == PayloadOf(raw)
               r == p.roomId
               before == IF r \in DOMAIN rooms THEN rooms[r] ELSE Untouched
           IN  /\ ~res.threw
               /\ res.meta = [roomId |-> r, name |-> p.name, role |-> p.role]
               /\ DOMAIN res.rooms = DOMAIN rooms \cup {r}
               /\ \A o \in DOMAIN rooms \ {r} : res.rooms[o] = rooms[o]
               /\ res.rooms[r] =
                      [before EXCEPT
                          !.clients = IF Contains(@, ws) THEN @
                                      ELSE Append(@, ws)]
               /\ Contains(res.rooms[r].clients, ws)
               /\ res.out = <<[to |-> ws, msg |-> Snapshot(before, r)]>>

\* A socket has joined a room that already had a member, a question and a
\* counted vote; and a room that did not exist can be joined.
C10_Witness ==
    /\ ~crashed
    /\ R1 \in DOMAIN rooms
    /\ R2 \notin DOMAIN rooms
    /\ rooms[R1].clients = <<1, 2>>
    /\ rooms[R1].total = 1
    /\ conn = [s \in Sockets |-> "open"]
    /\ meta[2] = [roomId |-> R1, name |-> Al, role |-> sPlayer]
    /\ R1 \in DOMAIN seen[2]
    /\ ops = 4

---------------------------------------------------------------------------
(* C11 *)

\* The members of room r, none while the room does not exist.
Members(rms, r) == IF r \in DOMAIN rms THEN rms[r].clients ELSE <<>>

\* Every member of a room has had a JOIN naming that room succeed.
MembersHaveJoined ==
    \A r \in DOMAIN rooms :
        \A i \in 1..Len(rooms[r].clients) : r \in joinedTo[rooms[r].clients[i]]

\* A step that changes the members of room r is the run of a successful
\* JOIN naming r, or the close of a connection joined to r.
MembersChangeByJoinOrClose ==
    \A r \in DOMAIN rooms' :
        Members(rooms', r) # Members(rooms, r)
        => \/ \E ws \in Sockets, raw \in GoodJoins :
                  /\ PayloadOf(raw).roomId = r
                  /\ Joined(ws, raw)
                  /\ Message(ws, raw)
                  /\ Members(rooms', r) = Append(Members(rooms, r), ws)
           \/ \E ws \in Sockets :
                  /\ RoomOf(ws) = r
                  /\ Close(ws)
                  /\ Members(rooms', r) = SetDelete(Members(rooms, r), ws)

\* C11: every session in a room's members has previously sent a successful
\* JOIN naming that room; the members of a room change only through a JOIN
\* to that room or the close of a connection.
C11_MembersJoined ==
    [](MembersHaveJoined) /\ [][MembersChangeByJoinOrClose]_vars

\* A room has a member left while another socket that joined it has closed
\* and is no longer among its members.
C11_Witness ==
    \E r \in DOMAIN rooms, ws \in Sockets :
        /\ Len(rooms[r].clients) = 1
        /\ conn[ws] = "closed"
        /\ RoomOf(ws) = r
        /\ r \in joinedTo[ws]
        /\ ~Contains(rooms[r].clients, ws)

---------------------------------------------------------------------------
(* C12 *)

\* The run sent the sender one ERROR and nothing else.
AnsweredWithError(ws, res) ==
    /\ Len(res.out) = 1
    /\ res.out[1].to = ws
    /\ res.out[1].msg.type = "ERROR"

\* C12: no inbound message drives the message callback into an uncaught
\* failure: every run of the callback returns, a run that does not succeed
\* answers the sender with an ERROR, and the server keeps serving.
C12_NoUncaughtFailure ==
    /\ ~crashed
    /\ \A ws \in Sockets, raw \in AllMsgs :
           conn[ws] = "open"
           => LET res == onMessage(ws, raw)
              IN  /\ ~res.threw
                  /\ IsState(res.out) \/ AnsweredWithError(ws, res)

---------------------------------------------------------------------------
(* C13 *)

\* The open sockets that are members of room r, joined to it as host.
Hosts(r) ==
    {ws \in Sockets :
        /\ conn[ws] = "open"
        /\ Contains(rooms[r].clients, ws)
        /\ RoomOf(ws) = r
        /\ meta[ws].role = sHost}

\* C13: in every reachable state each room has at most one member session
\* whose role is host.
C13_OneHostPerRoom ==
    \A r \in DOMAIN rooms : Cardinality(Hosts(r)) <= 1

---------------------------------------------------------------------------
(* C14 *)

\* C14: for every session and every question instance of its room, at most
\* one VOTE sent by that session is counted, whatever names its VOTEs
\* carry: a session that has had a vote counted since the latest
\* HOST_SET_QUESTION of its room has no further VOTE counted.  (Stated for
\* votes of a player with an integer optionIndex, earlier and now, which is
\* all it takes.)
C14_OneVotePerSession ==
    \A ws \in Sockets, raw \in VoteMsgs :
        ( /\ Active(ws)
          /\ meta[ws].role = sPlayer
          /\ <<RoomOf(ws), ws>> \in voters
          /\ NamesActiveQuestion(ws, raw)
          /\ IntegerInRange(ws, raw) )
        => ~Counted(ws, raw)

---------------------------------------------------------------------------
(* C15 *)

\* The tallies of room r: counts, total and votedBy.
Tally(rms, r) == <<rms[r].counts, rms[r].total, rms[r].votedBy>>

\* C15: a VOTE sent by a session whose current role is host never changes
\* counts, total or votedBy of any room.
C15_HostCannotVote ==
    \A ws \in Sockets, raw \in VoteMsgs :
        Active(ws) /\ meta[ws].role = sHost
        => LET res == onMessage(ws, raw)
           IN  \A r \in DOMAIN rooms : Tally(res.rooms, r) = Tally(rooms, r)

---------------------------------------------------------------------------
(* C16 *)

\* The sockets in a sequence of members.
MemberSet(clients) == {clients[i] : i \in 1..Len(clients)}

\* What the close callback of ws would do to the Map now: it removes ws from
\* the members of the room ws is joined to, keeps the other members, every
\* other room and every tally, and creates no room; for a socket that never
\* joined, or has closed already, it changes nothing.
CloseRemovesMemberOnly ==
    \A ws \in Sockets :
        LET after == onClose(ws)
        IN  /\ DOMAIN after = DOMAIN rooms
            /\ \A r \in DOMAIN rooms :
                   /\ after[r].question = rooms[r].question
                   /\ Tally(after, r) = Tally(rooms, r)
                   /\ MemberSet(after[r].clients) =
                        IF r = RoomOf(ws)
                        THEN MemberSet(rooms[r].clients) \ {ws}
                        ELSE MemberSet(rooms[r].clients)
                   /\ Len(after[r].clients) =
                        Cardinality(MemberSet(after[r].clients))
            /\ meta[ws] = NoMeta \/ conn[ws] = "closed" => after = rooms

\* A step that closes a connection does what the close callback does to the
\* Map, sends nothing, binds nothing and does not end the process.
CloseStepIsQuiet ==
    \A ws \in Sockets :
        conn[ws] = "open" /\ conn'[ws] = "closed"
        => /\ rooms' = onClose(ws)
           /\ \A s \in Sockets \ {ws} : seen'[s] = seen[s]
           /\ meta' = meta
           /\ crashed' = crashed

\* C16: closing a connection removes the session from the members of the
\* room it is joined to, emits no STATE or ERROR, never fails, changes no
\* room's question, counts, total or votedBy, and is idempotent: a second
\* close, or the close of a session that never joined, changes nothing.
C16_CloseOnlyLeaves ==
    [](CloseRemovesMemberOnly) /\ [][CloseStepIsQuiet]_vars

\* A socket has closed and left a room that holds a counted vote and still
\* has its other member; the other socket is open.
C16_Witness ==
    \E ws \in Sockets, s \in Sockets :
        /\ conn[ws] = "closed"
        /\ conn[s] = "open"
        /\ RoomOf(ws) \in joinedTo[ws]
        /\ rooms[RoomOf(ws)].total = 1
        /\ rooms[RoomOf(ws)].clients = <<s>>
        /\ RoomOf(ws) \in DOMAIN seen[s]

---------------------------------------------------------------------------
(* C17 *)

\* JOINs under another name than the one the sockets join with.
RenamedJoins == {JoinMsg(r, Bo, role) : r \in RoomIds, role \in {sHost, sPlayer}}

\* A socket is Unjoined until a JOIN of its succeeds and Joined from then
\* on: Unjoined it has roomId, name and role null; Joined it has all three
\* set and no message of its is answered NotJoined.
UnjoinedThenJoined ==
    \A ws \in Sockets :
        /\ joinedTo[ws] = {} => meta[ws] = NoMeta
        /\ joinedTo[ws] # {}
           => /\ Truthy(meta[ws].roomId)
              /\ Truthy(meta[ws].name)
              /\ ValidRole(meta[ws].role)
              /\ \A raw \in AllMsgs :
                     Active(ws)
                     => onMessage(ws, raw).out # ErrorTo(ws, NotJoinedError)

\* A well-formed JOIN succeeds and binds the roomId, name and role it
\* gives, whatever the socket was bound to; every other JOIN leaves
\* ws.meta as it was.
JoinOverwritesIdentity ==
    \A ws \in Sockets, raw \in JoinMsgs \cup RenamedJoins :
        Active(ws)
        => LET res == onMessage(ws, raw)
               p == PayloadOf(raw)
           IN  IF ValidJoin(raw)
               THEN /\ IsState(res.out)
                    /\ res.meta =
                         [roomId |-> p.roomId, name |-> p.name, role |-> p.role]
               ELSE /\ ~IsState(res.out)
                    /\ res.meta = meta[ws]

\* A connection starts with roomId, name and role null, and no step takes
\* a socket that has a roomId back to having none.
JoinedIsTerminal ==
    \A ws \in Sockets :
        /\ conn[ws] = "none" /\ conn'[ws] = "open" => meta'[ws] = NoMeta
        /\ Truthy(meta[ws].roomId) => Truthy(meta'[ws].roomId)

\* C17: each connection starts Unjoined (roomId, name, role all null), a
\* well-formed JOIN moves it to Joined, and once Joined it never returns to
\* Unjoined, so it never again receives NotJoined; a later successful JOIN
\* overwrites roomId, name and role while a later rejected JOIN leaves them
\* as they were.
C17_UnjoinedToJoined ==
    [](UnjoinedThenJoined /\ JoinOverwritesIdentity) /\ [][JoinedIsTerminal]_vars

\* A socket that joined r1 and then r2 as a player is open; a JOIN with a
\* role that is none is refused and one under another name would succeed.
C17_Witness ==
    \E ws \in Sockets :
        /\ Active(ws)
        /\ joinedTo[ws] = {R1, R2}
        /\ meta[ws] = [roomId |-> R2, name |-> Al, role |-> sPlayer]
        /\ RejectedWith(ws, JoinMsg(R2, Al, Str(<<"a", "d", "m", "i", "n">>)),
                        "Rol invalido.")
        /\ onMessage(ws, JoinMsg(R1, Bo, sHost)).meta.name = Bo

---------------------------------------------------------------------------
(* C18 *)

\* A HOST_SET_QUESTION or VOTE creates no room and leaves every room but
\* the sender's as it was, members included.
OtherRoomsUnchanged ==
    \A ws \in Sockets, raw \in AskMsgs \cup VoteMsgs :
        Active(ws)
        => LET res == onMessage(ws, raw)
           IN  /\ DOMAIN res.rooms = DOMAIN rooms
               /\ \A r \in DOMAIN rooms \ {RoomOf(ws)} :
                      res.rooms[r] = rooms[r]

\* A well-formed VOTE on the active question is counted when its name has
\* not been counted for the current question of the sender's room, whatever
\* the other rooms have counted.
CountedPerRoom ==
    \A ws \in Sockets, raw \in VoteMsgs :
        ( /\ Active(ws)
          /\ NamesActiveQuestion(ws, raw)
          /\ IntegerInRange(ws, raw)
          /\ HasStringName(raw) /\ Truthy(PayloadOf(raw).name)
          /\ <<RoomOf(ws), Normalized(PayloadOf(raw).name)>> \notin cast )
        => Counted(ws, raw)

\* C18: a HOST_SET_QUESTION or VOTE changes the question, counts, total and
\* votedBy of the sender's current room only, every other room stays as it
\* was, and the same voter name may be counted once in each of two rooms
\* for questions with the same id.
C18_RoomsAreIsolated == OtherRoomsUnchanged /\ CountedPerRoom

\* Both rooms ask question q1; r1 has counted the name Al, and a socket of
\* r2 gets the same name counted there.
C18_Witness ==
    \E ws \in Sockets :
        /\ Active(ws)
        /\ RoomOf(ws) = R2
        /\ R1 \in DOMAIN rooms
        /\ rooms[R1].question = Q1
        /\ rooms[R2].question = Q1
        /\ <<R1, q1, Normalized(Al)>> \in everVoted
        /\ rooms[R1].total = 1
        /\ Counted(ws, VoteMsg(q1, Num(0), Al))

---------------------------------------------------------------------------
(* C19 *)

\* C19: a session is a member of at most one room, the one recorded as its
\* current roomId, and of none once its connection has closed.
C19_MemberOfCurrentRoomOnly ==
    \A r \in DOMAIN rooms, ws \in Sockets :
        Contains(rooms[r].clients, ws)
        => conn[ws] = "open" /\ RoomOf(ws) = r

---------------------------------------------------------------------------
(* C20 *)

\* C20: a STATE carrying the snapshot of room r is delivered only to
\* sessions whose current roomId is r, the roomId of the sender being the
\* one its run leaves.
C20_StateOnlyToCurrentRoom ==
    \A ws \in Sockets, raw \in AllMsgs :
        Active(ws)
        => LET res == onMessage(ws, raw)
           IN  \A i \in 1..Len(res.out) :
                   LET to == res.out[i].to
                       msg == res.out[i].msg
                       current == IF to = ws THEN res.meta.roomId
                                  ELSE RoomOf(to)
                   IN  msg.type = "STATE" => msg.roomId = current

====
